---- MODULE Spec2Model ----
(***************************************************************************)
(* pinentry-touchid: the GetPIN / Confirm / Msg callbacks of src/main.go   *)
(* as a state machine.  A Go string or []byte is a sequence of one-        *)
(* character strings (all characters used are ASCII, so Go's len, which    *)
(* counts bytes, is Len).  The keychain, the Touch ID prompt and the       *)
(* pinentry-mac helper are the environment: each call to them is one step  *)
(* whose result is chosen among the results the call can give.             *)
(***************************************************************************)
EXTENDS Integers, Sequences, FiniteSets, TLC

\* ------------------------------------------------------------------ bounds
\* GetPIN requests served over the whole run (all processes together).
MaxCalls == 2

\* ------------------------------------------------------------- characters
NL == "\n"
QUOTE == "\""

\* --------------------------------------------------- strings (Go: strings)
\* strings.Index for a non-empty separator: the first position where sep
\* occurs in s, 0 when it does not occur.
Index(s, sep) ==
    LET hits == {i \in 1..(Len(s) - Len(sep) + 1) :
                    SubSeq(s, i, i + Len(sep) - 1) = sep}
    IN IF hits = {} THEN 0 ELSE CHOOSE i \in hits : \A j \in hits : i <= j

\* strings.Split(s, sep) for a non-empty separator.
RECURSIVE Split(_, _)
Split(s, sep) ==
    LET i == Index(s, sep)
    IN IF i = 0 THEN <<s>>
       ELSE <<SubSeq(s, 1, i - 1)>> \o Split(SubSeq(s, i + Len(sep), Len(s)), sep)

\* "." of a Go regexp without the s flag: any character but a newline.
NoNewline(s, a, b) == \A x \in a..b : s[x] # NL

Max(S) == CHOOSE x \in S : \A y \in S : y <= x
Min(S) == CHOOSE x \in S : \A y \in S : x <= y

\* ------------------------------------------- emailRegex  "(.*<(.*)>)"
\* The (j, k) placements of "<" and the closing ">" for a match that starts
\* with the quote at i.
EmailPairs(s, i) ==
    IF s[i] # QUOTE THEN {}
    ELSE {jk \in ((i + 1)..Len(s)) \X ((i + 1)..Len(s)) :
             /\ jk[1] < jk[2]
             /\ s[jk[1]] = "<"
             /\ s[jk[2]] = ">"
             /\ jk[2] + 1 <= Len(s)
             /\ s[jk[2] + 1] = QUOTE
             /\ NoNewline(s, i + 1, jk[2])}

EmailStarts(s) == {i \in 1..Len(s) : EmailPairs(s, i) # {}}

\* emailRegex.FindStringSubmatch(s): <<>> (nil) without a match, else
\* <<whole, group 1, group 2>>: leftmost start, then each ".*" as long as
\* the rest of the pattern allows.
emailRegex(s) ==
    IF EmailStarts(s) = {} THEN <<>>
    ELSE LET i == Min(EmailStarts(s))
             j == Max({jk[1] : jk \in EmailPairs(s, i)})
             k == Max({jk[2] : jk \in {p \in EmailPairs(s, i) : p[1] = j}})
         IN <<SubSeq(s, i, k + 1), SubSeq(s, i + 1, k), SubSeq(s, j + 1, k - 1)>>

\* --------------------------------------------- keyIDRegex  ID (.*),
KeyIDEnds(s, i) ==
    IF i + 2 > Len(s) \/ SubSeq(s, i, i + 2) # <<"I", "D", " ">> THEN {}
    ELSE {k \in (i + 3)..Len(s) : s[k] = "," /\ NoNewline(s, i + 3, k - 1)}

KeyIDStarts(s) == {i \in 1..Len(s) : KeyIDEnds(s, i) # {}}

\* keyIDRegex.FindStringSubmatch(s): <<>> (nil) without a match, else
\* <<whole, group 1>>.
keyIDRegex(s) ==
    IF KeyIDStarts(s) = {} THEN <<>>
    ELSE LET i == Min(KeyIDStarts(s))
             k == Max(KeyIDEnds(s, i))
         IN <<SubSeq(s, i, k), SubSeq(s, i + 3, k - 1)>>

\* ------------------------------------------------------ GetPIN's parsing
\* matches[1] and matches[2] panic (index out of range) on a nil matches.
ParsePanics(d) == emailRegex(d) = <<>> \/ keyIDRegex(d) = <<>>

ParsedName(d) == Split(emailRegex(d)[2], <<" ", "<">>)[1]
ParsedEmail(d) == emailRegex(d)[3]
ParsedKeyID(d) == keyIDRegex(d)[2]

\* A bug the length test could have: a range instead of the two lengths.
KeyIDLengthInRange(keyID) == Len(keyID) >= 8 /\ Len(keyID) <= 16

\* len(keyID) != 8 && len(keyID) != 16 is the fatal case.
KeyIDLengthOK(keyID) == Len(keyID) = 8 \/ Len(keyID) = 16

\* fmt.Sprintf("%s <%s> (%s)", name, email, keyID)
keychainLabel(name, email, keyID) ==
    name \o <<" ", "<">> \o email \o <<">", " ", "(">> \o keyID \o <<")">>

\* strings.Split(s.KeyInfo, "/"): element [1] of the code is element 2 here.
KeyInfoParts(ki) == Split(ki, <<"/">>)
KeyInfoPanics(ki) == Len(KeyInfoParts(ki)) < 2
\* A bug: all that follows the first "/", not the second field alone.
KeyInfoAfterSlash(ki) == SubSeq(ki, Index(ki, <<"/">>) + 1, Len(ki))

KeyInfoOf(ki) == KeyInfoParts(ki)[2]

\* ------------------------------------------------------------------ inputs
\* What gpg-agent can put in s.Desc and s.KeyInfo, and what the user can type.
Key8 == <<"A", "1", "B", "2", "C", "3", "D", "4">>
Key16 == Key8 \o <<"0", "5", "E", "6", "F", "7", "8", "9">>
Key7 == SubSeq(Key8, 1, 7)
Key9 == SubSeq(Key16, 1, 9)
Key15 == SubSeq(Key16, 1, 15)
Key17 == Key16 \o <<"0">>

QuotedUser(name, email) ==
    <<QUOTE>> \o name \o <<" ", "<">> \o email \o <<">", QUOTE>>
IDClause(keyID) == <<"I", "D", " ">> \o keyID \o <<",">>
\* The shape of gpg's passphrase description: the quoted user id on one
\* line, "<n>-bit RSA key, ID <keyId>," on the next.
Description(name, email, keyID) ==
    QuotedUser(name, email) \o <<NL, "k", "e", "y", ",", " ">>
        \o IDClause(keyID) \o <<NL>>

Alice == <<"A", "l">>
AliceMail == <<"a", "@", "x">>
Bob == <<"B", "o">>
BobMail == <<"b", "@", "y">>

DescAlice == Description(Alice, AliceMail, Key8)
DescBob == Description(Bob, BobMail, Key16)
\* The same user id and key id as DescAlice in other words.
DescAliceAgain == <<"I", "D", " ">> \o Key8 \o <<",", " ">>
                      \o QuotedUser(Alice, AliceMail) \o <<NL>>
\* No quoted "Name <email>" substring.
DescNoUser == <<"k", "e", "y", ",", " ">> \o IDClause(Key8) \o <<NL>>
\* No "ID <keyId>," substring.
DescNoID == QuotedUser(Alice, AliceMail) \o <<NL>>
\* A second comma on the line of the key id: ".*" runs to the last one.
DescLongLine == QuotedUser(Alice, AliceMail) \o <<NL>> \o IDClause(Key8)
                    \o <<" ", "x", ",", NL>>

Descs ==
    {DescAlice, DescAliceAgain, DescBob, DescNoUser, DescNoID, DescLongLine}
        \cup {Description(Alice, AliceMail, k) : k \in {Key7, Key9, Key15, Key17}}

\* s.KeyInfo: "x/cacheId" as gpg-agent sends it, one with a third segment,
\* and one without "/" (SETKEYINFO is optional in the protocol).
KeyInfoPlain == <<"n", "/", "K", "1">>
KeyInfoThree == <<"n", "/", "K", "1", "/", "z">>
KeyInfoNone == <<"K", "1">>
KeyInfos == {KeyInfoPlain, KeyInfoThree, KeyInfoNone}

\* What the helper can hand back: nothing, or the bytes typed.
Pin1234 == <<"1", "2", "3", "4">>
Pin9 == <<"9">>
Pins == {<<>>, Pin1234, Pin9}

\* ------------------------------------------------------------------- state
VARIABLES
    proc,       \* the process: "running", "fatal" (logger.Fatalf: os.Exit(1)), "panic"
    pc,         \* where the callback in progress stands: "idle", "check1", "ask",
                \* "check2", "store", "auth", "read", "returned", "halt"
    served,     \* GetPIN requests begun so far
    store,      \* the keychain: records [label, account, data, by]
    log,        \* the lines of the log file, in order: [fmt, arg]
    stderr,     \* the lines the package-level log.Printf wrote
    cb,         \* what the last Confirm or Msg printed and returned
    desc,       \* s.Desc of the request in progress
    keyInfoIn,  \* s.KeyInfo of the request in progress
    label,      \* keychainLabel
    keyInfo,    \* keyInfo (line 190)
    pin,        \* pin (line 179)
    exists,     \* exists as the first check set it (line 164)
    exists2,    \* exists as the re-check set it (line 197)
    ok,         \* ok (line 218)
    err,        \* err as last assigned: "" for nil
    result,     \* the string GetPIN returned
    outcome,    \* how the request in progress ended, "pending" until then
    prev,       \* [label, outcome] of the request this process answered before
    ncall,      \* calls this request made: [check, ask, add, auth, read]
    added,      \* the arguments of this request's keychain.AddItem calls
    captured    \* what this program stored so far: [name, email, keyID, data]

vars == <<proc, pc, served, store, log, stderr, cb, desc, keyInfoIn, label,
          keyInfo, pin, exists, exists2, ok, err, result, outcome, prev, ncall,
          added, captured>>

locals == <<desc, keyInfoIn, label, keyInfo, pin, exists, exists2, ok, err, result>>

NoCalls == [check |-> 0, ask |-> 0, add |-> 0, auth |-> 0, read |-> 0]
NoPrev == [label |-> <<>>, outcome |-> "none"]
NoCallback == [printed |-> "", ok |-> FALSE, err |-> ""]
ErrText == <<"e", "r", "r">>

Line(f, a) == [fmt |-> f, arg |-> a]

\* A bug: the message is logged as by Printf and the callback returns.
FatalfReturns(before, f, a, how) ==
    /\ log' = before \o <<Line(f, a)>>
    /\ proc' = proc
    /\ pc' = "returned"
    /\ outcome' = how

\* A bug: the fatal message is formatted with the PIN the callback holds.
FatalfLogsPin(before, f, a, how) ==
    /\ log' = before \o <<Line(f, pin)>>
    /\ proc' = "fatal"
    /\ pc' = "halt"
    /\ outcome' = how

\* logger.Fatalf after the lines `before`: the message, then os.Exit(1).
Fatalf(before, f, a, how) ==
    /\ log' = before \o <<Line(f, a)>>
    /\ proc' = "fatal"
    /\ pc' = "halt"
    /\ outcome' = how

\* A bug: the panic is recovered and the callback returns.
PanicRecovered(how) ==
    /\ proc' = proc
    /\ pc' = "returned"
    /\ outcome' = how
    /\ log' = log

\* A run-time panic (index out of range): the process dies, nothing is logged.
Panic(how) ==
    /\ proc' = "panic"
    /\ pc' = "halt"
    /\ outcome' = how
    /\ log' = log

\* return value, nil
Return(value, how) ==
    /\ result' = value
    /\ outcome' = how
    /\ pc' = "returned"
    /\ proc' = proc

\* The frame of a callback that is over: its locals are gone.
ClearLocals ==
    /\ desc' = <<>>
    /\ keyInfoIn' = <<>>
    /\ label' = <<>>
    /\ keyInfo' = <<>>
    /\ pin' = <<>>
    /\ exists' = FALSE
    /\ exists2' = FALSE
    /\ ok' = FALSE
    /\ err' = ""
    /\ result' = <<>>
    /\ ncall' = NoCalls
    /\ added' = <<>>

HasEntry(l) == \E r \in store : r.label = l

\* ------------------------------------------------------- the environment
\* checkEntryInKeychain(label): (len(results) == 1, nil), or (false, err).
checkEntryInKeychain(l) ==
    {[exists |-> HasEntry(l), err |-> ""], [exists |-> FALSE, err |-> "err"]}

\* askForPassword(s): the bytes typed, nothing, or nothing and an error.
askForPassword ==
    {[pin |-> p, err |-> ""] : p \in Pins} \cup {[pin |-> <<>>, err |-> "err"]}

\* storePasswordInKeychain: keychain.AddItem's error, "" for nil.
storePasswordInKeychain(l) ==
    IF HasEntry(l) THEN {"ErrorDuplicateItem", "other"} ELSE {"", "other"}

\* fn(reason): (ok, err)
AuthResults ==
    {[ok |-> TRUE, err |-> ""], [ok |-> FALSE, err |-> ""],
     [ok |-> FALSE, err |-> "err"]}

\* passwordFromKeychain(label): QueryItem fails, finds nothing (results[0]
\* panics) or finds the record.
passwordFromKeychain(l) ==
    {[data |-> <<>>, err |-> "err", panic |-> FALSE]}
        \cup (IF HasEntry(l)
              THEN {[data |-> r.data, err |-> "", panic |-> FALSE] :
                       r \in {x \in store : x.label = l}}
              ELSE {[data |-> <<>>, err |-> "", panic |-> TRUE]})

\* Lines 153-163 for every description, computed once: whether the indexing
\* panics, the key id, whether its length passes, and keychainLabel.
ParseOf(d) ==
    IF ParsePanics(d)
    THEN [panics |-> TRUE, name |-> <<>>, email |-> <<>>, keyID |-> <<>>,
          lengthOK |-> FALSE, label |-> <<>>]
    ELSE [panics |-> FALSE,
          name |-> ParsedName(d),
          email |-> ParsedEmail(d),
          keyID |-> ParsedKeyID(d),
          lengthOK |-> KeyIDLengthOK(ParsedKeyID(d)),
          label |-> keychainLabel(ParsedName(d), ParsedEmail(d), ParsedKeyID(d))]

Parsed == [d \in Descs |-> ParseOf(d)]

Init ==
    /\ proc = "running"
    /\ pc = "idle"
    /\ served = 0
    /\ store = {}
    /\ log = <<Line("Ready!", <<>>)>>
    /\ stderr = <<>>
    /\ cb = NoCallback
    /\ desc = <<>>
    /\ keyInfoIn = <<>>
    /\ label = <<>>
    /\ keyInfo = <<>>
    /\ pin = <<>>
    /\ exists = FALSE
    /\ exists2 = FALSE
    /\ ok = FALSE
    /\ err = ""
    /\ result = <<>>
    /\ outcome = "none"
    /\ prev = NoPrev
    /\ ncall = NoCalls
    /\ added = <<>>
    /\ captured = {}

\* ---------------------------------------------------------------- GetPIN
\* Lines 152-163: the callback is entered and the description parsed.
GetPINParse(d, ki) ==
    /\ proc = "running"
    /\ pc = "idle"
    /\ served < MaxCalls
    /\ served' = served + 1
    /\ desc' = d
    /\ keyInfoIn' = ki
    /\ cb' = NoCallback
    /\ UNCHANGED <<store, stderr, keyInfo, pin, exists, exists2, ok, err, result,
                   prev, ncall, added, captured>>
    /\ IF Parsed[d].panics
       THEN Panic("panic-parse") /\ label' = <<>>
       ELSE IF ~Parsed[d].lengthOK
       THEN Fatalf(log, "Invalid keyID: %s", Parsed[d].keyID, "fatal-keyid")
            /\ label' = <<>>
       ELSE /\ label' = Parsed[d].label
            /\ pc' = "check1"
            /\ outcome' = "pending"
            /\ UNCHANGED <<proc, log>>

\* A bug: the test of line 178 inverted.
FirstBranchInverted(found) == IF found THEN "ask" ELSE "auth"

\* Lines 164-167 and the branch of line 178.
FirstBranch(found) == IF found THEN "auth" ELSE "ask"

Check1 ==
    /\ proc = "running"
    /\ pc = "check1"
    /\ \E r \in checkEntryInKeychain(label) :
        /\ ncall' = [ncall EXCEPT !.check = @ + 1]
        /\ exists' = r.exists
        /\ err' = r.err
        /\ IF r.err # ""
           THEN Fatalf(log, "error checking entry in keychain: %s", ErrText,
                       "fatal-check")
           ELSE /\ pc' = FirstBranch(r.exists)
                /\ UNCHANGED <<proc, log, outcome>>
    /\ UNCHANGED <<served, store, stderr, cb, desc, keyInfoIn, label, keyInfo,
                   pin, exists2, ok, result, prev, added, captured>>

\* The record pinentry-mac leaves in the keychain when the user has it save
\* the PIN: under the label this program looks up, the bytes typed.
HelperRecord(l, p) == [label |-> l, account |-> <<"h">>, data |-> p, by |-> "helper"]

\* A bug: the empty PIN is not tested for.
NoPasswordNever(p) == FALSE

\* len(pin) == 0 (line 184)
NoPassword(p) == Len(p) = 0

\* Lines 179-190: the helper runs, then the PIN length test, then keyInfo.
AskForPassword ==
    /\ proc = "running"
    /\ pc = "ask"
    /\ \E r \in askForPassword, saved \in BOOLEAN :
        /\ saved => (r.pin # <<>> /\ ~HasEntry(label))
        /\ store' = IF saved THEN store \cup {HelperRecord(label, r.pin)} ELSE store
        /\ ncall' = [ncall EXCEPT !.ask = @ + 1]
        /\ pin' = r.pin
        /\ LET logged == IF r.err # ""
                         THEN Append(log, Line("Error calling pinentry-mac: %s", ErrText))
                         ELSE log
           IN IF NoPassword(r.pin)
              THEN Fatalf(logged, "pinentry-mac didn't return a password", <<>>,
                          "fatal-nopin")
                   /\ keyInfo' = keyInfo
              ELSE IF KeyInfoPanics(keyInfoIn)
              THEN Panic("panic-keyinfo") /\ keyInfo' = keyInfo
              ELSE /\ keyInfo' = KeyInfoOf(keyInfoIn)
                   /\ pc' = "check2"
                   /\ log' = logged
                   /\ UNCHANGED <<proc, outcome>>
    /\ UNCHANGED <<served, stderr, cb, desc, keyInfoIn, label, exists, exists2,
                   ok, err, result, prev, added, captured>>

\* A bug: the re-check's answer is ignored and the create always attempted.
RecheckBranchAlwaysStore(found) == "store"

\* The branch of line 202: create only when the re-check found nothing.
RecheckBranch(found) == IF found THEN "returned" ELSE "store"

\* Lines 197-202 and 210-214: the re-check; an entry found now was created
\* by the helper, and the PIN typed is returned.
Check2 ==
    /\ proc = "running"
    /\ pc = "check2"
    /\ \E r \in checkEntryInKeychain(label) :
        /\ ncall' = [ncall EXCEPT !.check = @ + 1]
        /\ exists2' = r.exists
        /\ err' = r.err
        /\ IF r.err # ""
           THEN Fatalf(log, "error checking entry in keychain: %s", ErrText,
                       "fatal-recheck")
                /\ result' = result
           ELSE IF RecheckBranch(r.exists) = "returned"
           THEN /\ log' = Append(log, Line("The keychain entry was created by pinentry-mac. Permission will be required on next run.", <<>>))
                /\ Return(pin, "captured-helper")
           ELSE /\ pc' = "store"
                /\ UNCHANGED <<proc, log, outcome, result>>
    /\ UNCHANGED <<served, store, stderr, cb, desc, keyInfoIn, label, keyInfo,
                   pin, exists, ok, prev, added, captured>>

\* A bug: SetAccount and SetLabel given each other's argument.
NewItemSwapped(l, account, data) ==
    [label |-> account, account |-> l, data |-> data, by |-> "self"]

\* The item storePasswordInKeychain builds (lines 107-114).
NewItem(l, account, data) ==
    [label |-> l, account |-> account, data |-> data, by |-> "self"]

\* string(pin), line 214: the same bytes as a string.
Captured(p) == p

\* A bug: the duplicate is not told apart and is swallowed like any error.
DuplicateItemNever(e) == FALSE

\* A bug: every error of the create is fatal.
DuplicateItemAnyError(e) == e # ""

\* err == keychain.ErrorDuplicateItem (line 207)
DuplicateItem(e) == e = "ErrorDuplicateItem"

\* A bug: the item is written over the entry under its label, an update in
\* place of a create.
AddItemReplaces(e, item) ==
    {r \in store : r.label # item.label} \cup {item}

\* keychain.AddItem (line 116): the item is in the keychain when the call
\* returns nil, and the keychain is as it was when it returns an error.
AddItem(e, item) == IF e = "" THEN store \cup {item} ELSE store

\* Lines 205-209 and 214: the create, fatal on ErrorDuplicateItem only.
Store ==
    /\ proc = "running"
    /\ pc = "store"
    /\ \E e \in storePasswordInKeychain(label) :
        /\ ncall' = [ncall EXCEPT !.add = @ + 1]
        /\ added' = Append(added, NewItem(label, keyInfo, pin))
        /\ err' = e
        /\ store' = AddItem(e, NewItem(label, keyInfo, pin))
        /\ captured' = IF e = ""
                       THEN captured \cup {[name |-> Parsed[desc].name,
                                            email |-> Parsed[desc].email,
                                            keyID |-> Parsed[desc].keyID,
                                            data |-> pin]}
                       ELSE captured
        /\ IF DuplicateItem(e)
           THEN Fatalf(log, "Duplicated entry in the keychain", <<>>, "fatal-duplicate")
                /\ result' = result
           ELSE /\ Return(Captured(pin),
                          IF e = "" THEN "captured-stored" ELSE "captured-unstored")
                /\ log' = log
    /\ UNCHANGED <<served, stderr, cb, desc, keyInfoIn, label, keyInfo, pin,
                   exists, exists2, ok, prev>>

\* A bug: ok is not tested, the payload is read whatever the challenge said.
AuthBranchAlwaysRead(allowed) == "read"

\* A bug: the test of ok inverted.
AuthBranchInverted(allowed) == IF allowed THEN "returned" ELSE "read"

\* The branch of line 224: the payload is read only after an allowed challenge.
AuthBranch(allowed) == IF allowed THEN "read" ELSE "returned"

\* A bug: a refused challenge handled like a failed one, with Fatalf.
DeniedFatal ==
    /\ log' = Append(log, Line("Failed to authenticate", <<>>))
    /\ result' = <<>>
    /\ outcome' = "denied"
    /\ pc' = "halt"
    /\ proc' = "fatal"

\* A bug: a refused challenge is put to the user again.
DeniedRetries ==
    /\ log' = Append(log, Line("Failed to authenticate", <<>>))
    /\ result' = result
    /\ outcome' = outcome
    /\ pc' = "auth"
    /\ proc' = proc

\* Lines 224-227: the challenge was refused.
Denied ==
    /\ log' = Append(log, Line("Failed to authenticate", <<>>))
    /\ Return(<<>>, "denied")

\* Lines 217-227: the Touch ID challenge.
Authenticate ==
    /\ proc = "running"
    /\ pc = "auth"
    /\ \E r \in AuthResults :
        /\ ncall' = [ncall EXCEPT !.auth = @ + 1]
        /\ ok' = r.ok
        /\ err' = r.err
        /\ IF r.err # ""
           THEN Fatalf(log, "Error authenticating with Touch ID: %s", ErrText,
                       "fatal-auth")
                /\ result' = result
           ELSE IF AuthBranch(r.ok) = "returned"
           THEN Denied
           ELSE /\ pc' = "read"
                /\ UNCHANGED <<proc, log, outcome, result>>
    /\ UNCHANGED <<served, store, stderr, cb, desc, keyInfoIn, label, keyInfo,
                   pin, exists, exists2, prev, added, captured>>

\* A bug: the error test inverted.
PasswordWhenError(r) == IF r.err = "" THEN <<>> ELSE r.data

\* string(results[0].Data), or "" beside an error (lines 94 and 101)
Password(r) == IF r.err # "" THEN <<>> ELSE r.data

\* Lines 229-234: the payload read; a failed read is reported by the
\* package-level logger (standard error) and "" is returned.
ReadPassword ==
    /\ proc = "running"
    /\ pc = "read"
    /\ \E r \in passwordFromKeychain(label) :
        /\ ncall' = [ncall EXCEPT !.read = @ + 1]
        /\ err' = r.err
        /\ IF r.panic
           THEN Panic("panic-read") /\ UNCHANGED <<result, stderr>>
           ELSE /\ Return(Password(r), IF r.err # "" THEN "read-error" ELSE "released")
                /\ log' = log
                /\ stderr' = IF r.err # ""
                             THEN Append(stderr, Line("Error fetching password from Keychain %s", ErrText))
                             ELSE stderr
    /\ UNCHANGED <<served, store, cb, desc, keyInfoIn, label, keyInfo, pin,
                   exists, exists2, ok, prev, added, captured>>

\* The reply is on the wire (pinentry.Serve, line 284) and the callback's
\* frame is gone; the process waits for the next request.
Deliver ==
    /\ proc = "running"
    /\ pc = "returned"
    /\ pc' = "idle"
    /\ prev' = [label |-> label, outcome |-> outcome]
    /\ outcome' = "none"
    /\ ClearLocals
    /\ UNCHANGED <<proc, served, store, log, stderr, cb, captured>>

\* --------------------------------------------------------- Confirm, Msg
\* A bug: the answer depends on the description being one GetPIN can parse.
ConfirmParsed(s) ==
    [printed |-> "Confirm was called!", ok |-> ~Parsed[s].panics, err |-> ""]

\* Lines 239-241: the line printed and the values returned, true and nil.
ConfirmReply(s) == [printed |-> "Confirm was called!", ok |-> TRUE, err |-> ""]

\* Lines 238-242: Confirm, whatever the settings s.
Confirm(s) ==
    /\ proc = "running"
    /\ pc = "idle"
    /\ cb' = ConfirmReply(s)
    /\ UNCHANGED <<proc, pc, served, store, log, stderr, locals, outcome, prev,
                   ncall, added, captured>>

\* Lines 245-247: the line printed and the value returned, nil.
MsgReply(s) == [printed |-> "Msg was called!", ok |-> FALSE, err |-> ""]

\* Lines 244-248: Msg, whatever the settings s.
Msg(s) ==
    /\ proc = "running"
    /\ pc = "idle"
    /\ cb' = MsgReply(s)
    /\ UNCHANGED <<proc, pc, served, store, log, stderr, locals, outcome, prev,
                   ncall, added, captured>>

\* ------------------------------------------------- the rest of the world
\* main (lines 250-284): a new process for the next request, after the
\* last one exited; it appends to the same log file.
Main ==
    /\ proc # "running"
    /\ served < MaxCalls
    /\ proc' = "running"
    /\ pc' = "idle"
    /\ log' = Append(log, Line("Ready!", <<>>))
    /\ outcome' = "none"
    /\ prev' = NoPrev
    /\ cb' = NoCallback
    /\ ClearLocals
    /\ UNCHANGED <<served, store, stderr, captured>>

\* Another writer of the keychain creates an entry under the label the
\* request in progress looks up.
ExternalRecord(l) ==
    [label |-> l, account |-> <<"o">>, data |-> <<"7", "7">>, by |-> "other"]

ExternalAdd ==
    /\ proc = "running"
    /\ pc \in {"check1", "ask", "check2", "store"}
    /\ ~HasEntry(label)
    /\ store' = store \cup {ExternalRecord(label)}
    /\ UNCHANGED <<proc, pc, served, log, stderr, cb, locals, outcome, prev,
                   ncall, added, captured>>

\* Another user of the keychain removes the entry between the allowed
\* challenge (line 217) and the read of the payload (line 229).
ExternalDelete ==
    /\ proc = "running"
    /\ pc = "read"
    /\ HasEntry(label)
    /\ store' = {r \in store : r.label # label}
    /\ UNCHANGED <<proc, pc, served, log, stderr, cb, locals, outcome, prev,
                   ncall, added, captured>>

Next ==
    \/ \E d \in Descs, ki \in KeyInfos : GetPINParse(d, ki)
    \/ Check1
    \/ AskForPassword
    \/ Check2
    \/ Store
    \/ Authenticate
    \/ ReadPassword
    \/ Deliver
    \/ \E s \in Descs : Confirm(s)
    \/ \E s \in Descs : Msg(s)
    \/ Main
    \/ ExternalAdd
    \/ ExternalDelete

Spec == Init /\ [][Next]_vars

\* ================================================================ claims
AliceLabel ==
    <<"A", "l", " ", "<", "a", "@", "x", ">", " ", "(",
      "A", "1", "B", "2", "C", "3", "D", "4", ")">>
BobLabel ==
    <<"B", "o", " ", "<", "b", "@", "y", ">", " ", "(",
      "A", "1", "B", "2", "C", "3", "D", "4",
      "0", "5", "E", "6", "F", "7", "8", "9", ")">>
ExpectedLabel(d) ==
    IF d \in {DescAlice, DescAliceAgain} THEN AliceLabel
    ELSE IF d = DescBob THEN BobLabel
    ELSE <<>>

InCall == pc # "idle"
HelperEntry == \E r \in store : r.label = label /\ r.by = "helper"

\* C1. Repeat-access gating: in a request whose first existence check found
\* the label, a payload is read, and a non-empty result returned, only after
\* the Authenticator was challenged in this same request and allowed.
C1_RepeatAccessGated ==
    (InCall /\ exists)
        => ((result # <<>> \/ ncall.read > 0 \/ pc = "read")
                => (ncall.auth = 1 /\ ok))

C1_Witness ==
    exists /\ outcome = "released" /\ result # <<>> /\ ok /\ ncall.auth = 1

\* C2. First capture under race: the label was absent at the first check, the
\* helper returned bytes and left an entry that the re-check saw: no create
\* call, the process lives, and the bytes typed are returned; they are also
\* what is returned when this program created the record itself.
C2_FirstCaptureUnderRace ==
    /\ (InCall /\ ~exists /\ ncall.check = 2 /\ outcome # "fatal-recheck"
            /\ HelperEntry)
         => /\ exists2
            /\ ncall.add = 0
            /\ added = <<>>
            /\ proc = "running"
            /\ pc = "returned"
            /\ pin # <<>>
            /\ result = pin
    /\ outcome \in {"captured-helper", "captured-stored"} => result = pin

C2_Witness ==
    outcome = "captured-helper" /\ HelperEntry /\ result = Pin1234 /\ ncall.add = 0

\* C3. First capture without race: absent at both checks, one create call
\* with the label "name <email> (keyId)", account cacheId and the bytes typed;
\* the bytes typed are returned and never read back from the keychain.
C3_FirstCaptureStores ==
    (InCall /\ pc # "store" /\ ~exists /\ ncall.check = 2 /\ ~exists2
        /\ outcome # "fatal-recheck")
      => /\ ncall.add = 1
         /\ Len(added) = 1
         /\ added[1].label = ExpectedLabel(desc)
         /\ added[1].data = pin
         /\ (keyInfoIn = KeyInfoPlain => added[1].account = <<"K", "1">>)
         /\ ncall.read = 0
         /\ (outcome # "fatal-duplicate"
                => (pc = "returned" /\ proc = "running" /\ result = pin))

C3_Witness ==
    /\ outcome = "captured-stored"
    /\ desc = DescAlice
    /\ keyInfoIn = KeyInfoPlain
    /\ result = Pin1234
    /\ [label |-> AliceLabel, account |-> <<"K", "1">>, data |-> Pin1234,
        by |-> "self"] \in store

\* What this program stored before for the identity of the request in progress.
EarlierCaptures ==
    {c \in captured : /\ c.name = Parsed[desc].name
                      /\ c.email = Parsed[desc].email
                      /\ c.keyID = Parsed[desc].keyID}

\* Those of them whose record is in the keychain, under the label of the
\* identity.
StoredCaptures ==
    {c \in EarlierCaptures :
        \E r \in store : /\ r.by = "self"
                         /\ r.label = ExpectedLabel(desc)
                         /\ r.data = c.data}

\* C4. Store round trip: once a request stored the bytes p typed for an
\* identity, a later request with the same (name, email, keyId), the record
\* being in the keychain, derives the record's label, finds the entry at its
\* first check, never runs the helper, and, allowed by the Authenticator,
\* returns p as read from the keychain.
C4_StoreRoundTrip ==
    (InCall /\ pc # "check1" /\ ncall.add = 0
        /\ outcome \notin {"panic-parse", "fatal-keyid", "fatal-check"}
        /\ StoredCaptures # {})
      => /\ label = ExpectedLabel(desc)
         /\ exists
         /\ ncall.ask = 0
         /\ \A c \in StoredCaptures : outcome = "released" => result = c.data

C4_Witness ==
    /\ outcome = "released"
    /\ desc = DescAliceAgain
    /\ StoredCaptures # {}
    /\ result = Pin1234

\* C5. Denied challenge: the label exists and the Authenticator says no
\* without an error: an empty result, no payload read, no create, and the
\* process goes on.
C5_DeniedIsEmpty ==
    (InCall /\ exists /\ ncall.auth = 1 /\ ~ok /\ err = "")
      => /\ pc = "returned"
         /\ proc = "running"
         /\ outcome = "denied"
         /\ result = <<>>
         /\ ncall.read = 0
         /\ ncall.add = 0
         /\ added = <<>>

C5_Witness ==
    outcome = "denied" /\ exists /\ HasEntry(label) /\ pc = "returned"

\* A step of this program outside the first-capture branch.
FoundBranchStep ==
    pc \in {"idle", "check1", "auth", "read"} /\ pc' # pc

\* The state after a refused challenge, and the request that follows it.
AfterDenial ==
    /\ (outcome = "denied" => (proc = "running" /\ pc = "returned"))
    /\ (prev.outcome = "denied" /\ pc = "idle") => proc = "running"
    /\ (prev.outcome = "denied" /\ pc \notin {"idle", "check1"}
            /\ label = prev.label /\ outcome # "fatal-check")
         => /\ exists
            /\ ncall.ask = 0
            /\ ncall.add = 0
            /\ (pc \in {"read", "returned"} => ncall.auth = 1)
            /\ ((pc = "returned" /\ ok /\ err = "")
                   => /\ outcome = "released"
                      /\ \E r \in store : r.label = label /\ result = r.data)

\* C6. Service continues after a denial: the denied request leaves the
\* keychain as it was and the process running; the next request for the same
\* label is a normal repeat access: found, challenged afresh, and given the
\* stored payload when that challenge is allowed.
C6_ServiceAfterDenial ==
    /\ []AfterDenial
    /\ [][FoundBranchStep => (store' = store /\ captured' = captured)]_vars

C6_Witness ==
    /\ prev.outcome = "denied"
    /\ label = prev.label
    /\ outcome = "released"
    /\ result # <<>>

\* Descriptions whose key id has 7, 9, 15 or 17 characters.
BadLengthDescs ==
    {Description(Alice, AliceMail, k) : k \in {Key7, Key9, Key15, Key17}}

\* C7. keyId length: a key id of a length other than 8 and 16 (7, 9, 15, 17
\* among them) ends the process with a fatal error before any keychain,
\* helper or Authenticator call; with 8 or 16 the request goes on to the
\* existence check.
C7_KeyIDLength ==
    (InCall /\ ~Parsed[desc].panics)
      => /\ IF Len(Parsed[desc].keyID) \in {8, 16}
            THEN outcome # "fatal-keyid" /\ (pc = "check1" \/ ncall.check >= 1)
            ELSE /\ proc = "fatal"
                 /\ pc = "halt"
                 /\ outcome = "fatal-keyid"
                 /\ ncall = NoCalls
                 /\ added = <<>>
         /\ (desc \in BadLengthDescs => outcome = "fatal-keyid")
         /\ (desc \in {DescAlice, DescBob} => outcome # "fatal-keyid")

C7_Witness ==
    /\ desc = Description(Alice, AliceMail, Key9)
    /\ proc = "fatal"
    /\ outcome = "fatal-keyid"
    /\ ncall = NoCalls

\* C8. Missing pattern: a description without the quoted "Name <email>" or
\* without "ID <keyId>," ends the process, and no keychain, helper or
\* Authenticator call is made.
C8_MissingPatternFatal ==
    (InCall /\ (desc \in {DescNoUser, DescNoID} \/ Parsed[desc].panics))
      => /\ desc \in {DescNoUser, DescNoID}
         /\ proc # "running"
         /\ pc = "halt"
         /\ ncall = NoCalls
         /\ added = <<>>
         /\ result = <<>>

C8_Witness ==
    desc = DescNoID /\ proc = "panic" /\ outcome = "panic-parse"

\* C9. Authenticator error: the label exists and the challenge fails with an
\* error: the process ends with a fatal error, nothing is read and nothing
\* returned.
C9_AuthErrorFatal ==
    (InCall /\ exists /\ ncall.auth = 1 /\ ~ok /\ err # "")
      => /\ proc = "fatal"
         /\ pc = "halt"
         /\ outcome = "fatal-auth"
         /\ ncall.read = 0
         /\ result = <<>>

C9_Witness ==
    outcome = "fatal-auth" /\ proc = "fatal" /\ HasEntry(label) /\ ncall.auth = 1

\* C10. Empty capture is fatal: the helper returned no bytes: the process
\* ends before the re-check and before any create call, and this program
\* has written nothing to the keychain.
C10_EmptyCaptureFatal ==
    (InCall /\ ncall.ask = 1 /\ pin = <<>>)
      => /\ proc = "fatal"
         /\ pc = "halt"
         /\ outcome = "fatal-nopin"
         /\ ncall.check = 1
         /\ ncall.add = 0
         /\ added = <<>>
         /\ ~\E r \in store : r.label = label /\ r.by = "self"

C10_Witness ==
    outcome = "fatal-nopin" /\ ncall.ask = 1 /\ pin = <<>> /\ proc = "fatal"

\* C11 as stated: the helper returning no bytes, and the Authenticator
\* refusing, both give the caller an empty response and leave the process
\* serving.
C11_UserDeclinedNonFatal ==
    (InCall /\ \/ (ncall.ask = 1 /\ pin = <<>>)
               \/ (exists /\ ncall.auth = 1 /\ ~ok /\ err = ""))
      => /\ proc = "running"
         /\ pc = "returned"
         /\ result = <<>>

\* C11. The user declining: a refused challenge gives the caller an empty
\* response and the process goes on serving; the helper returning no bytes
\* gives the caller no response at all: the message is logged and the
\* process exits.
C11_DeclinedOutcomes ==
    /\ (InCall /\ exists /\ ncall.auth = 1 /\ ~ok /\ err = "")
         => (proc = "running" /\ pc = "returned" /\ result = <<>>)
    /\ (InCall /\ ncall.ask = 1 /\ pin = <<>>)
         => /\ proc = "fatal"
            /\ pc = "halt"
            /\ result = <<>>
            /\ log[Len(log)] = Line("pinentry-mac didn't return a password", <<>>)
    /\ (prev.outcome = "denied" => proc = "running" \/ pc = "halt")

C11_Witness ==
    /\ prev.outcome = "denied"
    /\ outcome = "fatal-nopin"
    /\ ~exists
    /\ proc = "fatal"

\* C12. Duplicate entry: the re-check found the label absent and the create
\* reports a duplicate (another writer got in between): the process logs
\* "Duplicated entry in the keychain" and exits; the bytes typed are not
\* returned and this program has written no record.
C12_DuplicateFatal ==
    (InCall /\ ncall.add = 1 /\ err = "ErrorDuplicateItem")
      => /\ ~exists
         /\ ncall.check = 2
         /\ ~exists2
         /\ pin # <<>>
         /\ proc = "fatal"
         /\ pc = "halt"
         /\ outcome = "fatal-duplicate"
         /\ result = <<>>
         /\ log[Len(log)] = Line("Duplicated entry in the keychain", <<>>)
         /\ ~\E r \in store : r.label = label /\ r.by = "self"

C12_Witness ==
    /\ outcome = "fatal-duplicate"
    /\ pin = Pin1234
    /\ ~exists2
    /\ \E r \in store : r.label = label /\ r.by = "other"
    /\ proc = "fatal"

\* C13. Read failure after authorization: the label was found, the challenge
\* allowed, and the read did not give the payload (an error, or the entry is
\* gone): the failure is logged, the caller gets an empty response, and the
\* process goes on serving.
C13_ReadFailureSurfaced ==
    (InCall /\ exists /\ ok /\ ncall.read = 1 /\ outcome # "released")
      => /\ proc = "running"
         /\ pc = "returned"
         /\ result = <<>>
         /\ \/ log[Len(log)].arg = ErrText
            \/ (stderr # <<>> /\ stderr[Len(stderr)].arg = ErrText)

\* C14 as stated: the account of the record created is all of the
\* correlation id after its first "/", and the extraction is made only once
\* the re-check has found the label still absent.
C14_AccountAfterFirstSlash ==
    /\ (InCall /\ ncall.add = 1)
         => added[1].account = KeyInfoAfterSlash(keyInfoIn)
    /\ (InCall /\ keyInfo # <<>>) => (ncall.check = 2 /\ ~exists2)
    /\ (InCall /\ outcome = "panic-keyinfo") => (ncall.check = 2 /\ ~exists2)

\* C14. cacheId extraction: the account of the record created is the second
\* "/"-separated field of the correlation id (cacheId for x/cacheId, b and
\* not b/c for a/b/c); the field is taken after a non-empty capture and
\* before the re-check, where a correlation id without "/" ends the process.
C14_AccountSecondField ==
    /\ (InCall /\ ncall.add = 1)
         => /\ added[1].account = keyInfo
            /\ keyInfoIn \in {KeyInfoPlain, KeyInfoThree}
            /\ added[1].account = <<"K", "1">>
    /\ (InCall /\ ncall.ask = 1 /\ pin # <<>>)
         => IF keyInfoIn = KeyInfoNone
            THEN /\ proc = "panic"
                 /\ outcome = "panic-keyinfo"
                 /\ ncall.check = 1
                 /\ ncall.add = 0
                 /\ keyInfo = <<>>
            ELSE keyInfo = <<"K", "1">>
    /\ (InCall /\ keyInfo # <<>>) => (ncall.ask = 1 /\ pin # <<>>)

C14_Witness ==
    /\ outcome = "captured-stored"
    /\ keyInfoIn = KeyInfoThree
    /\ \E r \in store : r.by = "self" /\ r.label = label /\ r.account = <<"K", "1">>

\* A step of this program: a request moves on, or Confirm or Msg answers.
ProgramStep == pc' # pc \/ cb' # cb

\* What a step of this program may do to the keychain: every record stays as
\* it is, and a record of its own appears only in the create of the
\* first-capture branch, after both checks found the label absent.
CreateOnlyStep ==
    /\ store \subseteq store'
    /\ \A r \in store' \ store :
          r.by = "self"
            => /\ pc = "store"
               /\ ~exists
               /\ ncall.check = 2
               /\ ~exists2
               /\ ~HasEntry(r.label)
               /\ r.label = label
               /\ r.data = pin
               /\ store' = store \cup {r}
    /\ (pc # "store" => \A r \in store' \ store : r.by # "self")
    /\ (exists => store' = store)
    /\ (pc = "idle" => store' = store)

\* C15. Create-only keychain access: no step of GetPIN, Confirm or Msg
\* removes or changes a record; the one write is the create of the
\* first-capture branch after the re-check found the label absent; a label
\* never has two records, and the found branch leaves the keychain as it is.
C15_CreateOnly ==
    /\ [](\A r1, r2 \in store : r1.label = r2.label => r1 = r2)
    /\ [][ProgramStep => CreateOnlyStep]_vars

C15_Witness ==
    /\ prev.outcome = "captured-stored"
    /\ exists
    /\ outcome = "released"
    /\ \E r \in store : r.by = "self" /\ r.label = label /\ r.data = result

\* The bytes a user can type and the payloads the keychain holds.
Secrets ==
    (Pins \ {<<>>}) \cup {r.data : r \in store} \cup {c.data : c \in captured}

\* A line made of a fixed message and of nothing else, an error's text, or
\* the key id of a description.
NoSecretIn(line) ==
    /\ line.arg \notin Secrets
    /\ \/ /\ line.arg = <<>>
          /\ line.fmt \in {"Ready!", "pinentry-mac didn't return a password",
                           "Duplicated entry in the keychain",
                           "The keychain entry was created by pinentry-mac. Permission will be required on next run.",
                           "Failed to authenticate"}
       \/ /\ line.arg = ErrText
          /\ line.fmt \in {"error checking entry in keychain: %s",
                           "Error calling pinentry-mac: %s",
                           "Error authenticating with Touch ID: %s",
                           "Error fetching password from Keychain %s"}
       \/ /\ line.fmt = "Invalid keyID: %s"
          /\ line.arg \in {Parsed[d].keyID : d \in Descs}

\* What a request that ends in a given way has the logger write, from the
\* way it ends and the key id of its description alone.
LinesFor(how, d) ==
    CASE how = "fatal-keyid" ->
            {<<Line("Invalid keyID: %s", Parsed[d].keyID)>>}
      [] how \in {"fatal-check", "fatal-recheck"} ->
            {<<Line("error checking entry in keychain: %s", ErrText)>>}
      [] how = "fatal-nopin" ->
            {<<Line("pinentry-mac didn't return a password", <<>>)>>,
             <<Line("Error calling pinentry-mac: %s", ErrText),
               Line("pinentry-mac didn't return a password", <<>>)>>}
      [] how = "fatal-duplicate" ->
            {<<Line("Duplicated entry in the keychain", <<>>)>>}
      [] how = "captured-helper" ->
            {<<Line("The keychain entry was created by pinentry-mac. Permission will be required on next run.", <<>>)>>}
      [] how = "fatal-auth" ->
            {<<Line("Error authenticating with Touch ID: %s", ErrText)>>}
      [] how = "denied" ->
            {<<Line("Failed to authenticate", <<>>)>>}
      [] OTHER -> {<<>>}

\* The log file only grows, and what a step adds to it is decided by how the
\* request ends, not by the bytes in hand.
LogStep ==
    /\ Len(log') >= Len(log)
    /\ SubSeq(log', 1, Len(log)) = log
    /\ SubSeq(log', Len(log) + 1, Len(log')) \in
          IF pc = "halt" /\ pc' = "idle" THEN {<<Line("Ready!", <<>>)>>}
          ELSE IF pc' \in {"returned", "halt"} /\ pc' # pc
          THEN LinesFor(outcome', desc')
          ELSE {<<>>}
    /\ (stderr' # stderr
          => /\ outcome' = "read-error"
             /\ stderr' = Append(stderr, Line("Error fetching password from Keychain %s", ErrText)))

\* C16. No secret in logs: in every state, every line of the log file and of
\* standard error is a fixed message with no argument, with an error's text
\* or with a key id, and no line carries bytes typed at the helper or a
\* payload of the keychain; what a request adds to the log is fixed by the
\* way it ends, so runs that differ in the secret bytes alone log the same.
C16_NoSecretInLog ==
    /\ [](/\ \A i \in 1..Len(log) : NoSecretIn(log[i])
          /\ \A i \in 1..Len(stderr) : NoSecretIn(stderr[i])
          /\ cb.printed \in {"", "Confirm was called!", "Msg was called!"})
    /\ [][LogStep]_vars

C16_Witness ==
    /\ pin \in Secrets
    /\ outcome = "fatal-recheck"
    /\ log[Len(log)] = Line("error checking entry in keychain: %s", ErrText)
    /\ \E i \in 1..Len(log) : log[i].fmt = "Error calling pinentry-mac: %s"

\* C17. Confirm and Msg: Confirm answers true with no error and Msg answers
\* with no error, for every description; the step of either calls neither
\* the keychain, the helper nor the Authenticator, and leaves the process and
\* all that a later GetPIN reads as they were.
C17_ConfirmMsgStateless ==
    /\ [](/\ cb.printed = "Confirm was called!" => (cb.ok /\ cb.err = "")
          /\ cb.printed = "Msg was called!" => cb.err = "")
    /\ [][(cb' # cb /\ cb'.printed # "")
            => /\ proc' = "running"
               /\ pc' = "idle"
               /\ ncall' = ncall
               /\ UNCHANGED <<proc, pc, served, store, log, stderr, locals,
                              outcome, prev, added, captured>>]_vars

C17_Witness ==
    /\ cb.printed = "Confirm was called!"
    /\ cb.ok
    /\ prev.outcome = "captured-stored"
    /\ store # {}

\* How far into GetPIN a position is.
Rank(p) ==
    CASE p = "idle" -> 0
      [] p = "check1" -> 1
      [] p \in {"ask", "auth"} -> 2
      [] p \in {"check2", "read"} -> 3
      [] p = "store" -> 4
      [] OTHER -> 5

\* C18. No internal retry: one request runs the helper at most once and the
\* Authenticator at most once; a refusal or an empty capture ends it, no
\* step goes back to an earlier one, and a repeat access reads the payload
\* only after a challenge of its own, whatever the request before it did.
C18_NoRetry ==
    /\ [](/\ ncall.ask <= 1
          /\ ncall.auth <= 1
          /\ ncall.check <= 2
          /\ ncall.add <= 1
          /\ ncall.read <= 1
          /\ (ncall.auth = 1 /\ ~ok) => pc \in {"returned", "halt"}
          /\ (ncall.ask = 1 /\ pin = <<>>) => pc = "halt"
          /\ (InCall /\ exists /\ (pc = "read" \/ ncall.read = 1))
                => (ncall.auth = 1 /\ ok))
    /\ [][pc' # pc => (pc' = "idle" \/ Rank(pc') > Rank(pc))]_vars
    /\ [][pc' = "idle" => (pc \in {"idle", "returned", "halt"} /\ ncall' = NoCalls)]_vars

C18_Witness ==
    /\ prev.outcome = "released"
    /\ label = prev.label
    /\ outcome = "released"
    /\ ncall.auth = 1
    /\ ncall.ask = 0

\* C19. The branch is fixed by the first check: the helper runs only in a
\* request whose first check found nothing, the Authenticator only in one
\* whose first check found the label, never both; a first capture whose
\* re-check finds an entry returns the bytes typed with no challenge.
C19_BranchFixedByFirstCheck ==
    InCall =>
        /\ ~(ncall.ask > 0 /\ ncall.auth > 0)
        /\ (ncall.ask > 0 \/ pc \in {"ask", "check2", "store"})
              => (~exists /\ ncall.check >= 1 /\ ncall.auth = 0 /\ ncall.read = 0)
        /\ (ncall.auth > 0 \/ pc \in {"auth", "read"})
              => (exists /\ ncall.check = 1 /\ ncall.ask = 0 /\ ncall.add = 0)
        /\ (~exists /\ ncall.check = 2 /\ exists2)
              => /\ outcome = "captured-helper"
                 /\ pc = "returned"
                 /\ proc = "running"
                 /\ pin # <<>>
                 /\ result = pin
                 /\ ncall.auth = 0
                 /\ ncall.read = 0
                 /\ ncall.add = 0

C19_Witness ==
    /\ outcome = "captured-helper"
    /\ ~exists
    /\ exists2
    /\ \E r \in store : r.label = label /\ r.by = "other"
    /\ result = Pin9
    /\ ncall.auth = 0

\* The request after one whose create failed, for the same label, once past
\* its first check.
AfterFailedCreate ==
    /\ prev.outcome = "captured-unstored"
    /\ label = prev.label
    /\ pc \notin {"idle", "check1"}
    /\ outcome # "fatal-check"

\* C20. A create that fails with an error other than the duplicate is
\* swallowed: the request returns the bytes typed, the process runs on,
\* nothing is logged and the keychain is as it was, with no record of this
\* program under the label; the next request for the label, finding no
\* entry, asks the helper again and makes no challenge.
C20_CreateFailureSwallowed ==
    /\ []((InCall /\ ncall.add = 1 /\ err = "other")
            => /\ pc = "returned"
               /\ proc = "running"
               /\ outcome = "captured-unstored"
               /\ pin # <<>>
               /\ result = pin
               /\ ncall.auth = 0
               /\ ncall.read = 0
               /\ ~\E r \in store : r.label = label /\ r.by = "self")
    /\ [][(pc = "store" /\ pc' # pc /\ err' = "other")
            => (store' = store /\ captured' = captured /\ log' = log
                /\ stderr' = stderr)]_vars
    /\ [][(pc = "check1" /\ pc' # pc /\ prev.outcome = "captured-unstored"
             /\ label = prev.label /\ err' = "" /\ ~HasEntry(label))
            => (~exists' /\ pc' = "ask")]_vars
    /\ []((AfterFailedCreate /\ ~exists)
            => (ncall.auth = 0 /\ (pc # "ask" => ncall.ask = 1)))

C20_Witness ==
    /\ AfterFailedCreate
    /\ ~exists
    /\ ncall.ask = 1
    /\ pin # <<>>
    /\ ~HasEntry(label)

====
